---- MODULE Spec2Model ----
(***************************************************************************)
(* bevy_rose.  Six parts  of the program, each with its own variables and  *)
(* specifications:                                                         *)
(*  - the game session client: GameClient::run_connection and the two      *)
(*    handlers it dispatches to (src/protocol/game_client.rs), with the    *)
(*    channels that connect it to the frame loop;                          *)
(*  - fn main (src/main.rs): the command line, the schedule it builds,     *)
(*    the frames of app.run() and the network thread;                      *)
(*  - load_zone_system (src/systems/load_zone_system.rs);                  *)
(*  - npc_idle_sound_system (src/systems/npc_idle_sound_system.rs);        *)
(*  - quest_trigger_check_conditions                                       *)
(*    (src/scripting/quest_condition_functions.rs);                        *)
(*  - load_block_object (src/systems/load_zone_system.rs).                 *)
(* A step of one part leaves the variables of the other parts unchanged.   *)
(***************************************************************************)
EXTENDS Integers, Sequences, FiniteSets, TLC

\* Bounds of the model.
MaxPackets == 2      \* packets the server delivers during one session
MaxMessages == 2     \* ClientMessages the frame loop enqueues during one session

VARIABLES
    pc,                 \* position of run_connection: "start", "select", "done"
    result,             \* value run_connection returned ("None" while running)
    connects,           \* number of TcpStream::connect calls made
    socket,             \* state of the TCP stream: "open", "eof", "reset"
    socket_in,          \* packets delivered by the server and not yet read
    arrived,            \* every packet the server delivered, in arrival order
    client_message_rx,  \* content of the unbounded ClientMessage queue
    enqueued,           \* every ClientMessage accepted by the queue, in order
    tx_open,            \* some client_message_tx sender is still alive
    client_dropped,     \* the GameClient (and its receiver) has been dropped
    server_message_tx,  \* ServerMessages accepted by the crossbeam channel
    rx_alive,           \* the application still holds the ServerMessage receiver
    written,            \* packets written to the socket, in order
    event,              \* what the select! of the loop serviced last
    \* fn main (src/main.rs)
    main_pc,            \* position of main
    matches,            \* the command line, as clap parsed it
    server_configuration, \* the ServerConfiguration resource: ip and port
    app_state,          \* the AppState the application starts in
    view_zone_id,       \* the zone the zone viewer opens
    load_zone_events,   \* Events<LoadZoneEvent> inserted at startup
    schedule,           \* the stages of the App in running order, with their systems
    network_thread,     \* "unspawned", "running", "exited", "joined"
    network_thread_rx,  \* NetworkThreadMessages sent and not yet received
    sent,               \* every NetworkThreadMessage main sent, in order
    frame,              \* the stages the current frame has run so far
    \* load_zone_system (src/systems/load_zone_system.rs)
    load_zone_state,    \* Local<LoadZoneState>
    loading_current_zone, \* Local<Option<CurrentZone>>, by the id of the zone
    current_zone,       \* the CurrentZone resource of the world, by its id
    zone_objects,       \* the entities with a ZoneObject component
    sky_entities,       \* the entities with a Handle<SkyMaterial>
    zone_events,        \* every ZoneEvent::Loaded sent, by zone id, in order
    zone_requests,      \* number of LoadZoneEvents sent so far
    \* npc_idle_sound_system (src/systems/npc_idle_sound_system.rs), one NPC
    idle_sound_state,   \* Option<NpcIdleSoundState> of the entity
    npc_command,        \* the Command of the entity: "stop" or "move"
    current_loop_count, \* skeletal_animation.current_loop_count()
    rolls,              \* every roll made for the entity, in order
    idle_period,        \* number of times the state was reset so far
    npc_frames,         \* number of runs of npc_idle_sound_system so far
    \* quest_trigger_check_conditions (src/scripting/quest_condition_functions.rs)
    quest_trigger,      \* the conditions of the QuestTrigger that is checked
    selected_quest_index, \* quest_context.selected_quest_index
    check_result,       \* Some(what the call returned), None before the call
    condition_log,      \* the result logged for each condition of the call
    \* load_block_object (src/systems/load_zone_system.rs), one object
    block_pc,           \* position of load_block_object: "idle", "parts", "done"
    mesh_cache,         \* Vec<Option<Handle<Mesh>>>
    material_cache,     \* Vec<Option<LoadedMaterial>>
    part_entities       \* the parts spawned so far, in order

session_vars == <<pc, result, connects, socket, socket_in, arrived,
                  client_message_rx, enqueued, tx_open, client_dropped,
                  server_message_tx, rx_alive, written, event>>

\* The state of main but for the LoadZoneEvents, which load_zone_system reads.
startup_vars == <<main_pc, matches, server_configuration, app_state,
                  view_zone_id, schedule, network_thread, network_thread_rx,
                  sent, frame>>

main_vars == <<startup_vars, load_zone_events>>

zone_vars == <<load_zone_state, loading_current_zone, current_zone,
               zone_objects, sky_entities, zone_events, zone_requests>>

npc_vars == <<idle_sound_state, npc_command, current_loop_count, rolls,
              idle_period, npc_frames>>

quest_vars == <<quest_trigger, selected_quest_index, check_result, condition_log>>

block_vars == <<block_pc, mesh_cache, material_cache, part_entities>>

vars == <<session_vars, main_vars, zone_vars, npc_vars, quest_vars, block_vars>>

\* What a step of the session, of main, of the zone loading, of the NPC, of
\* the quest conditions and of load_block_object leaves alone.
outside_session == <<main_vars, zone_vars, npc_vars, quest_vars, block_vars>>
outside_main == <<session_vars, zone_vars, npc_vars, quest_vars, block_vars>>
outside_zone == <<session_vars, startup_vars, npc_vars, quest_vars, block_vars>>
outside_npc == <<session_vars, main_vars, zone_vars, quest_vars, block_vars>>
outside_quest == <<session_vars, main_vars, zone_vars, npc_vars, block_vars>>
outside_block == <<session_vars, main_vars, zone_vars, npc_vars, quest_vars>>

----------------------------------------------------------------------------
\* Wire packets and domain messages.

\* The ServerPackets opcodes handle_packet has an arm for.
ServerPacketsHandled ==
    {"ConnectReply", "SelectCharacter", "CharacterInventory", "QuestData",
     "JoinZone", "MoveEntity", "MoveEntityWithMoveMode", "SpawnEntityNpc",
     "SpawnEntityMonster", "RemoveEntities", "Teleport", "LocalChat",
     "ShoutChat", "AnnounceChat", "Whisper", "UpdateSpeed"}

\* "OtherServerPacket" is an opcode of the ServerPackets enum without an arm,
\* "NotAServerPacket" a command for which from_u16 yields None.
Commands == ServerPacketsHandled \cup {"OtherServerPacket", "NotAServerPacket"}

\* PacketConnectionReply.result
ConnectResults == {"Ok", "Failed", "InvalidPassword"}

\* The ClientMessage variants handle_client_message has an arm for, and two of
\* the variants it has none for.
ClientMessagesImplemented == {"ConnectionRequest", "JoinZoneRequest", "Move", "Chat"}
ClientMessages == ClientMessagesImplemented \cup {"Attack", "GetCharacterList"}

\* FromPrimitive::from_u16(packet.command)
from_u16(command) ==
    IF command = "NotAServerPacket" THEN "None" ELSE command

\* PacketServerX::try_from(&packet) succeeds
try_from(packet) == packet.valid

Message(variant, ok, data) == [variant |-> variant, ok |-> ok, data |-> data]

\* Faulty variant of ConnectionResponse: every decoded reply counts as accepted.
ConnectionResponseAlwaysOk(response) ==
    Message("ConnectionResponse", TRUE, response.data)

\* The message of the ConnectReply arm: Ok(ConnectionResponse) with the
\* packet_sequence_id for ConnectResult::Ok, Err(Failed) for any other result.
ConnectionResponse(response) ==
    IF response.result = "Ok"
    THEN Message("ConnectionResponse", TRUE, response.data)
    ELSE Message("ConnectionResponse", FALSE, 0)

\* Faulty variant of Arm: the error of a send without receiver is propagated.
ArmSendErrorFatal(packet, variant) ==
    IF try_from(packet) /\ rx_alive
    THEN [ret |-> "Ok", send |-> <<Message(variant, TRUE, packet.data)>>]
    ELSE [ret |-> "Err", send |-> <<>>]

\* Faulty variant of Arm: the decode error is swallowed instead of propagated.
ArmSwallowsDecodeError(packet, variant) ==
    IF try_from(packet)
    THEN [ret |-> "Ok", send |-> <<Message(variant, TRUE, packet.data)>>]
    ELSE [ret |-> "Ok", send |-> <<>>]

\* Faulty variant of Arm: what could be decoded of a short payload is
\* forwarded before the error is returned.
ArmForwardsPartial(packet, variant) ==
    IF try_from(packet)
    THEN [ret |-> "Ok", send |-> <<Message(variant, TRUE, packet.data)>>]
    ELSE [ret |-> "Err", send |-> <<Message(variant, FALSE, packet.data)>>]

\* One arm of handle_packet: decode, then send one message.
Arm(packet, variant) ==
    IF try_from(packet)
    THEN [ret |-> "Ok", send |-> <<Message(variant, TRUE, packet.data)>>]
    ELSE [ret |-> "Err", send |-> <<>>]

\* Faulty variant of handle_packet: a command without an arm is an error.
handle_packet_unknown_fatal(packet) ==
    IF from_u16(packet.command) \in ServerPacketsHandled
    THEN Arm(packet, "Handled")
    ELSE [ret |-> "Err", send |-> <<>>]

\* GameClient::handle_packet: the value returned and the messages handed to
\* server_message_tx.send.
handle_packet(packet) ==
    LET command == from_u16(packet.command) IN
    CASE command = "ConnectReply" ->
            IF try_from(packet)
            THEN [ret |-> "Ok", send |-> <<ConnectionResponse(packet)>>]
            ELSE [ret |-> "Err", send |-> <<>>]
      [] command = "SelectCharacter" -> Arm(packet, "CharacterData")
      [] command = "CharacterInventory" -> Arm(packet, "CharacterDataItems")
      [] command = "QuestData" -> Arm(packet, "CharacterDataQuest")
      [] command = "JoinZone" -> Arm(packet, "JoinZone")
      [] command \in {"MoveEntity", "MoveEntityWithMoveMode"} ->
            Arm(packet, "MoveEntity")
      [] command = "SpawnEntityNpc" -> Arm(packet, "SpawnEntityNpc")
      [] command = "SpawnEntityMonster" -> Arm(packet, "SpawnEntityMonster")
      [] command = "RemoveEntities" -> Arm(packet, "RemoveEntities")
      [] command = "Teleport" -> Arm(packet, "Teleport")
      [] command = "LocalChat" -> Arm(packet, "LocalChat")
      [] command = "ShoutChat" -> Arm(packet, "ShoutChat")
      [] command = "AnnounceChat" -> Arm(packet, "AnnounceChat")
      [] command = "Whisper" -> Arm(packet, "Whisper")
      [] command = "UpdateSpeed" -> Arm(packet, "UpdateSpeed")
      [] OTHER -> [ret |-> "Ok", send |-> <<>>]

\* crossbeam Sender::send(..).ok(): the message is queued while a receiver
\* exists, and the error of a send without receiver is discarded.
ChannelSend(chan, messages) ==
    IF rx_alive THEN chan \o messages ELSE chan

\* Faulty variant of PacketFrom: the Move arm builds the Chat packet.
PacketFromMoveAsChat(message) ==
    CASE message.variant = "ConnectionRequest" ->
            [command |-> "PacketClientConnectRequest", data |-> message.data]
      [] message.variant = "JoinZoneRequest" ->
            [command |-> "PacketClientJoinZone", data |-> message.data]
      [] message.variant \in {"Move", "Chat"} ->
            [command |-> "PacketClientChat", data |-> message.data]

\* The wire packet handle_client_message builds for a message: Packet::from of
\* the opcode-specific struct.
PacketFrom(message) ==
    CASE message.variant = "ConnectionRequest" ->
            [command |-> "PacketClientConnectRequest", data |-> message.data]
      [] message.variant = "JoinZoneRequest" ->
            [command |-> "PacketClientJoinZone", data |-> message.data]
      [] message.variant = "Move" ->
            [command |-> "PacketClientMove", data |-> message.data]
      [] message.variant = "Chat" ->
            [command |-> "PacketClientChat", data |-> message.data]

\* Connection::write_packet fails once the connection has been reset.
WriteFails == socket = "reset"

\* Faulty variant of handle_client_message: the result of write_packet is
\* dropped instead of propagated with `?`.
handle_client_message_ignores_write_error(message) ==
    IF message.variant \in ClientMessagesImplemented /\ ~WriteFails
    THEN [ret |-> "Ok", write |-> <<PacketFrom(message)>>]
    ELSE [ret |-> "Ok", write |-> <<>>]

\* GameClient::handle_client_message: the value returned and the packets
\* written to the connection.
handle_client_message(message) ==
    IF message.variant \in ClientMessagesImplemented
    THEN IF WriteFails
         THEN [ret |-> "Err", write |-> <<>>]
         ELSE [ret |-> "Ok", write |-> <<PacketFrom(message)>>]
    ELSE [ret |-> "Ok", write |-> <<>>]

----------------------------------------------------------------------------
\* fn main: the command line.

\* Option<T>: None is the empty sequence, Some(x) is <<x>>.
None == <<>>
Some(x) == <<x>>
unwrap_or(option, default) == IF option = None THEN default ELSE option[1]
and_then(option, F(_)) == IF option = None THEN None ELSE F(option[1])

\* The value of one decimal digit; a string is a sequence of characters.
Digits == {"0", "1", "2", "3", "4", "5", "6", "7", "8", "9"}
DigitValue(c) ==
    CASE c = "0" -> 0 [] c = "1" -> 1 [] c = "2" -> 2 [] c = "3" -> 3
      [] c = "4" -> 4 [] c = "5" -> 5 [] c = "6" -> 6 [] c = "7" -> 7
      [] c = "8" -> 8 [] c = "9" -> 9

U16Max == 65535

RECURSIVE Decimal(_)
Decimal(str) ==
    IF str = <<>> THEN 0
    ELSE 10 * Decimal(SubSeq(str, 1, Len(str) - 1)) + DigitValue(str[Len(str)])

\* str.parse::<u16>().ok()
parse_u16(str) ==
    IF str # <<>> /\ (\A i \in DOMAIN str : str[i] \in Digits)
          /\ Decimal(str) <= U16Max
    THEN Some(Decimal(str))
    ELSE None

\* ZoneId::new (a NonZeroU16)
ZoneId_new(n) == IF n = 0 THEN None ELSE Some(n)

\* The command lines drawn: --ip and --port given or not, --zone not given or
\* given with a number, zero, a number past u16, or something that is no
\* number, and each of the three mode flags given or not.
ZoneArguments ==
    {None, Some(<<"2">>), Some(<<"1", "7">>), Some(<<"0">>),
     Some(<<"6", "5", "5", "3", "6">>), Some(<<"x">>), Some(<<>>)}

CommandLines ==
    [ip : {None, Some("10.0.0.1")},
     port : {None, Some("1234")},
     zone : ZoneArguments,
     game : BOOLEAN,
     model_viewer : BOOLEAN,
     zone_viewer : BOOLEAN]

\* ArgMatches::value_of: the value given, or the default_value of the option
\* (only --port declares one).
value_of(m, name) ==
    IF name = "port" /\ m.port = None THEN Some("29000") ELSE m[name]

\* ArgMatches::is_present for the flags.
is_present(m, name) == m[name]

\* let ip = matches.value_of("ip") ... unwrap_or_else(|| "127.0.0.1")
ServerIp(m) == unwrap_or(value_of(m, "ip"), "127.0.0.1")

\* let port = matches.value_of("ip") ... unwrap_or_else(|| "29000")
ServerPort(m) == unwrap_or(value_of(m, "ip"), "29000")

DefaultZoneId == 1

\* let view_zone_id = matches.value_of("zone").and_then(parse).and_then(ZoneId::new)
\*                        .unwrap_or_else(|| ZoneId::new(1).unwrap())
ViewZoneId(m) ==
    unwrap_or(and_then(and_then(value_of(m, "zone"), parse_u16), ZoneId_new),
              DefaultZoneId)

\* Faulty variant of InitialAppState: the game is the default mode.
InitialAppStateGameByDefault(m) ==
    LET app_state_0 == "GameLogin" IN
    IF is_present(m, "game") THEN "GameLogin"
    ELSE IF is_present(m, "model_viewer") THEN "ModelViewer"
    ELSE IF is_present(m, "zone_viewer") THEN "ZoneViewer"
    ELSE app_state_0

\* let mut app_state = AppState::ZoneViewer; if .. else if .. else if ..
InitialAppState(m) ==
    LET app_state_0 == "ZoneViewer" IN
    IF is_present(m, "game") THEN "GameLogin"
    ELSE IF is_present(m, "model_viewer") THEN "ModelViewer"
    ELSE IF is_present(m, "zone_viewer") THEN "ZoneViewer"
    ELSE app_state_0

----------------------------------------------------------------------------
\* fn main: the schedule.

Stage(label, systems) == [stage |-> label, systems |-> systems]

\* The stages of App::new(), before main adds its own. The systems the engine
\* and the plugins run in them are not listed: `systems` holds the systems
\* main registers.
CoreStages ==
    <<Stage("First", {}), Stage("PreUpdate", {}), Stage("Update", {}),
      Stage("PostUpdate", {}), Stage("Last", {})>>

IndexOf(sched, label) == CHOOSE i \in DOMAIN sched : sched[i].stage = label

InsertAt(seq, i, x) == SubSeq(seq, 1, i - 1) \o <<x>> \o SubSeq(seq, i, Len(seq))

\* App::add_stage_after / add_stage_before: directly next to the target.
add_stage_after(sched, target, label, systems) ==
    InsertAt(sched, IndexOf(sched, target) + 1, Stage(label, systems))

add_stage_before(sched, target, label, systems) ==
    InsertAt(sched, IndexOf(sched, target), Stage(label, systems))

\* App::add_system_to_stage; App::add_system adds to CoreStage::Update.
add_system_to_stage(sched, label, systems) ==
    [i \in DOMAIN sched |->
        IF sched[i].stage = label
        THEN Stage(label, sched[i].systems \cup systems)
        ELSE sched[i]]

add_system(sched, systems) == add_system_to_stage(sched, "Update", systems)

\* Some of the systems main adds to Update, and the systems of its own stages.
UpdateSystems == {"character_model_system", "animation_system", "game_ui_system"}
ZoneChangeSystems == {"load_zone_system", "game_zone_change_system"}
DebugRenderSystems ==
    {"debug_render_collider_system", "debug_render_skeleton_system",
     "debug_render_polylines_update_system"}
NetworkSystems ==
    {"login_connection_system", "world_connection_system", "game_connection_system"}

----------------------------------------------------------------------------
\* fn main: its steps, the frames of app.run() and the network thread.

NoMatches ==
    [ip |-> None, port |-> None, zone |-> None, game |-> FALSE,
     model_viewer |-> FALSE, zone_viewer |-> FALSE]

MainInit ==
    /\ main_pc = "get_matches"
    /\ matches = NoMatches
    /\ server_configuration = [ip |-> "", port |-> ""]
    /\ app_state = "unset"
    /\ view_zone_id = 0
    /\ load_zone_events = <<>>
    /\ schedule = CoreStages
    /\ network_thread = "unspawned"
    /\ network_thread_rx = <<>>
    /\ sent = <<>>
    /\ frame = <<>>

\* let matches = command.get_matches();
GetMatches(m) ==
    /\ main_pc = "get_matches"
    /\ matches' = m
    /\ main_pc' = "configure"
    /\ UNCHANGED <<server_configuration, app_state, view_zone_id,
                   load_zone_events, schedule, network_thread,
                   network_thread_rx, sent, frame>>
    /\ UNCHANGED outside_main

\* The values main derives from the matches, and the resources it inserts.
Configure ==
    /\ main_pc = "configure"
    /\ server_configuration' = [ip |-> ServerIp(matches), port |-> ServerPort(matches)]
    /\ view_zone_id' = ViewZoneId(matches)
    /\ app_state' = InitialAppState(matches)
    /\ main_pc' = "events"
    /\ UNCHANGED <<matches, load_zone_events, schedule, network_thread,
                   network_thread_rx, sent, frame>>
    /\ UNCHANGED outside_main

\* if matches!(app_state, AppState::ZoneViewer) { load_zone_events.send(..) }
QueueLoadZone ==
    /\ main_pc = "events"
    /\ load_zone_events' =
          IF app_state = "ZoneViewer"
          THEN Append(load_zone_events, view_zone_id)
          ELSE load_zone_events
    /\ main_pc' = "stages"
    /\ UNCHANGED <<matches, server_configuration, app_state, view_zone_id,
                   schedule, network_thread, network_thread_rx, sent, frame>>
    /\ UNCHANGED outside_main

\* The systems and stages main adds before it sets up the network.
SetupStages ==
    /\ main_pc = "stages"
    /\ LET s1 == add_system(schedule, UpdateSystems)
           s2 == add_stage_after(s1, "Update", "ZoneChange", ZoneChangeSystems)
           s3 == add_stage_after(s2, "ZoneChange", "DebugRender", DebugRenderSystems)
           s4 == add_stage_after(s3, "Update", "ModelViewerInput", {"model_viewer_system"})
           s5 == add_system_to_stage(s4, "PostUpdate", {"ui_drag_and_drop_system"})
       IN schedule' = s5
    /\ main_pc' = "network"
    /\ UNCHANGED <<matches, server_configuration, app_state, view_zone_id,
                   load_zone_events, network_thread, network_thread_rx, sent,
                   frame>>
    /\ UNCHANGED outside_main

\* std::thread::spawn(move || run_network_thread(network_thread_rx))
SpawnNetworkThread ==
    /\ main_pc = "network"
    /\ network_thread' = "running"
    /\ main_pc' = "network_stage"
    /\ UNCHANGED <<matches, server_configuration, app_state, view_zone_id,
                   load_zone_events, schedule, network_thread_rx, sent, frame>>
    /\ UNCHANGED outside_main

\* app.add_stage_before(CoreStage::Update, GameStages::Network, ..)
AddNetworkStage ==
    /\ main_pc = "network_stage"
    /\ schedule' = add_stage_before(schedule, "Update", "Network", NetworkSystems)
    /\ main_pc' = "run"
    /\ UNCHANGED <<matches, server_configuration, app_state, view_zone_id,
                   load_zone_events, network_thread, network_thread_rx, sent,
                   frame>>
    /\ UNCHANGED outside_main

\* app.run(): a frame runs the stages of the schedule in order, one after the
\* other; the next frame starts over.
RunStage ==
    /\ main_pc = "run"
    /\ frame' = IF Len(frame) = Len(schedule)
                THEN <<schedule[1]>>
                ELSE Append(frame, schedule[Len(frame) + 1])
    /\ UNCHANGED <<main_pc, matches, server_configuration, app_state,
                   view_zone_id, load_zone_events, schedule, network_thread,
                   network_thread_rx, sent>>
    /\ UNCHANGED outside_main

\* app.run() returns once a frame has ended with an exit request.
RunReturns ==
    /\ main_pc = "run"
    /\ Len(frame) = Len(schedule)
    /\ main_pc' = "exit"
    /\ UNCHANGED <<matches, server_configuration, app_state, view_zone_id,
                   load_zone_events, schedule, network_thread,
                   network_thread_rx, sent, frame>>
    /\ UNCHANGED outside_main

\* Faulty variant of SendExit: the signal is sent again while main waits.
SendExitRepeated ==
    /\ main_pc \in {"exit", "join"}
    /\ sent' = Append(sent, "Exit")
    /\ network_thread_rx' =
          IF network_thread = "running"
          THEN Append(network_thread_rx, "Exit")
          ELSE network_thread_rx
    /\ main_pc' = "join"
    /\ Len(sent) < 2
    /\ UNCHANGED <<matches, server_configuration, app_state, view_zone_id,
                   load_zone_events, schedule, network_thread, frame>>
    /\ UNCHANGED outside_main

\* network_thread_tx.send(NetworkThreadMessage::Exit).ok(): the message is
\* queued while the thread holds the receiver; a failed send is ignored.
SendExit ==
    /\ main_pc = "exit"
    /\ sent' = Append(sent, "Exit")
    /\ network_thread_rx' =
          IF network_thread = "running"
          THEN Append(network_thread_rx, "Exit")
          ELSE network_thread_rx
    /\ main_pc' = "join"
    /\ UNCHANGED <<matches, server_configuration, app_state, view_zone_id,
                   load_zone_events, schedule, network_thread, frame>>
    /\ UNCHANGED outside_main

\* network_thread.join().ok(): main waits until the thread has ended.
Join ==
    /\ main_pc = "join"
    /\ network_thread = "exited"
    /\ network_thread' = "joined"
    /\ main_pc' = "done"
    /\ UNCHANGED <<matches, server_configuration, app_state, view_zone_id,
                   load_zone_events, schedule, network_thread_rx, sent, frame>>
    /\ UNCHANGED outside_main

\* The network thread takes a message from its channel.
NetworkThreadRecv ==
    /\ network_thread = "running"
    /\ network_thread_rx # <<>>
    /\ network_thread_rx' = Tail(network_thread_rx)
    /\ UNCHANGED <<main_pc, matches, server_configuration, app_state,
                   view_zone_id, load_zone_events, schedule, network_thread,
                   sent, frame>>
    /\ UNCHANGED outside_main

\* run_network_thread returns (or the thread panics) and drops the receiver.
\* Its body is not part of main: it may end at any time.
NetworkThreadEnds ==
    /\ network_thread = "running"
    /\ network_thread' = "exited"
    /\ network_thread_rx' = <<>>
    /\ UNCHANGED <<main_pc, matches, server_configuration, app_state,
                   view_zone_id, load_zone_events, schedule, sent, frame>>
    /\ UNCHANGED outside_main

main ==
    \/ \E m \in CommandLines : GetMatches(m)
    \/ Configure
    \/ QueueLoadZone
    \/ SetupStages
    \/ SpawnNetworkThread
    \/ AddNetworkStage
    \/ RunStage
    \/ RunReturns
    \/ SendExit
    \/ Join

NextMain ==
    \/ main
    \/ NetworkThreadRecv
    \/ NetworkThreadEnds

----------------------------------------------------------------------------
\* load_zone_system.

MaxLoadZoneEvents == 3    \* LoadZoneEvents sent in one run
MaxEventsPerFrame == 2    \* LoadZoneEvents sent between two runs of the system

\* The zone ids requested: two zones of the zone list whose files load, one of
\* the list whose ZON file cannot be read, and one that is not in the list.
ZoneList == {1, 2, 3}
Unreadable == {3}
ZoneIds == ZoneList \cup {4}
\* The zones of the list with a skybox.
SkyboxZones == {1, 3}

NoZone == [kind |-> "None", id |-> 0]
Loading(zone_id) == [kind |-> "Loading", id |-> zone_id]
Loaded(zone_id) == [kind |-> "Loaded", id |-> zone_id]

\* match *load_zone_state { None => None, Loading(id) | Loaded(id) => Some(id) }
ZoneIdOf(state) == IF state.kind = "None" THEN None ELSE Some(state.id)

Last(seq) == seq[Len(seq)]

\* if let Some(e) = load_zone_event.iter().last() { state = Loading(e.id) }
StateAfterEvents(state, events) ==
    IF events # <<>> THEN Loading(Last(events)) ELSE state

\* What load_zone spawns for a zone: objects without a mesh of their own,
\* parts and terrain with a mesh that starts loading, and the sky.
ZoneEntity(zone_id, part, mesh) == [zone |-> zone_id, part |-> part, mesh |-> mesh]

SpawnedObjects(zone_id) ==
    {ZoneEntity(zone_id, "CnstObject", "NoMesh"),
     ZoneEntity(zone_id, "CnstObjectPart", "Loading"),
     ZoneEntity(zone_id, "Terrain", "Loading")}

SpawnedSky(zone_id) ==
    IF zone_id \in SkyboxZones THEN {ZoneEntity(zone_id, "Sky", "Loading")} ELSE {}

\* load_zone(..): the commands it queues and the value it returns. The only
\* error it returns is that of reading the ZON file, before anything is queued.
load_zone(zone_id) ==
    IF zone_id \in Unreadable
    THEN [commands |-> <<>>, result |-> None]
    ELSE [commands |-> <<[op |-> "spawn", sky |-> SpawnedSky(zone_id),
                          objects |-> SpawnedObjects(zone_id)]>>,
          result |-> Some(zone_id)]

\* Faulty variant of ZoneFinishedLoading: a mesh that failed to load counts as
\* one that is still loading.
ZoneFinishedLoadingNeedsLoaded(objects) ==
    \A o \in objects : o.mesh \in {"NoMesh", "Loaded"}

\* Faulty variant of ZoneFinishedLoading: the meshes are not looked at.
ZoneFinishedLoadingUnchecked(objects) == TRUE

\* The loop over query_zone_objects: no mesh is in LoadState::Loading.
ZoneFinishedLoading(objects) == \A o \in objects : o.mesh # "Loading"

\* Faulty variant of DespawnOldZone: the sky of the old zone is kept.
DespawnOldZoneKeepsSky(objects, sky) ==
    <<[op |-> "despawn", entities |-> objects],
      [op |-> "remove_resource"]>>

\* The commands that take the old zone down: despawn_recursive of every zone
\* object and every sky entity, then remove_resource::<CurrentZone>().
DespawnOldZone(objects, sky) ==
    <<[op |-> "despawn", entities |-> objects],
      [op |-> "despawn", entities |-> sky],
      [op |-> "remove_resource"]>>

\* One run of load_zone_system on the events sent since its last run: the new
\* values of its two Locals, the commands it queues and the events it sends.
LoadZoneSystem(state, loading, events, objects, sky) ==
    LET current_zone_id == ZoneIdOf(state)
        state_1 == StateAfterEvents(state, events)
        load_zone_id == ZoneIdOf(state_1)
    IN  IF current_zone_id = load_zone_id
        THEN IF state_1.kind = "Loading" /\ ZoneFinishedLoading(objects)
             THEN [state |-> Loaded(state_1.id),
                   loading |-> None,
                   commands |-> IF loading # None
                                THEN <<[op |-> "insert_resource", zone |-> loading[1]]>>
                                ELSE <<>>,
                   events |-> <<state_1.id>>]
             ELSE [state |-> state_1, loading |-> loading,
                   commands |-> <<>>, events |-> <<>>]
        ELSE LET next_zone_id == load_zone_id[1]
                 load == load_zone(next_zone_id)
             IN  [state |-> Loading(next_zone_id),
                  loading |-> IF next_zone_id \in ZoneList
                              THEN load.result
                              ELSE loading,
                  commands |-> DespawnOldZone(objects, sky)
                                  \o (IF next_zone_id \in ZoneList
                                      THEN load.commands
                                      ELSE <<>>),
                  events |-> <<>>]

\* The world: the entities and the resource the commands act on.
World(objects, sky, zone) == [objects |-> objects, sky |-> sky, current_zone |-> zone]

ApplyCommand(world, command) ==
    CASE command.op = "despawn" ->
            [world EXCEPT !.objects = @ \ command.entities,
                          !.sky = @ \ command.entities]
      [] command.op = "remove_resource" ->
            [world EXCEPT !.current_zone = None]
      [] command.op = "insert_resource" ->
            [world EXCEPT !.current_zone = Some(command.zone)]
      [] command.op = "spawn" ->
            [world EXCEPT !.objects = @ \cup command.objects,
                          !.sky = @ \cup command.sky]

\* The command queue is applied in the order the commands were queued.
RECURSIVE ApplyCommands(_, _)
ApplyCommands(world, commands) ==
    IF commands = <<>> THEN world
    ELSE ApplyCommands(ApplyCommand(world, Head(commands)), Tail(commands))

ZoneInit ==
    /\ load_zone_state = NoZone
    /\ loading_current_zone = None
    /\ current_zone = None
    /\ zone_objects = {}
    /\ sky_entities = {}
    /\ zone_events = <<>>
    /\ zone_requests = 0

\* A run of load_zone_system in the ZoneChange stage, with its commands
\* applied at the end of the stage.
load_zone_system ==
    LET run == LoadZoneSystem(load_zone_state, loading_current_zone,
                              load_zone_events, zone_objects, sky_entities)
        world == ApplyCommands(World(zone_objects, sky_entities, current_zone),
                               run.commands)
    IN  /\ load_zone_state' = run.state
        /\ loading_current_zone' = run.loading
        /\ zone_events' = zone_events \o run.events
        /\ zone_objects' = world.objects
        /\ sky_entities' = world.sky
        /\ current_zone' = world.current_zone
        /\ load_zone_events' = <<>>
        /\ UNCHANGED zone_requests
        /\ UNCHANGED outside_zone

\* Some system sends LoadZoneEvent::new(zone_id).
SendLoadZoneEvent(zone_id) ==
    /\ zone_requests < MaxLoadZoneEvents
    /\ Len(load_zone_events) < MaxEventsPerFrame
    /\ load_zone_events' = Append(load_zone_events, zone_id)
    /\ zone_requests' = zone_requests + 1
    /\ UNCHANGED <<load_zone_state, loading_current_zone, current_zone,
                   zone_objects, sky_entities, zone_events>>
    /\ UNCHANGED outside_zone

\* The parts load_zone spawns with a mesh handle.
MeshParts == {"CnstObjectPart", "Terrain", "Sky"}

\* The asset server finishes loading the mesh of an entity, or fails to.
MeshLoadEnds(part, outcome) ==
    /\ \E entity \in zone_objects \cup sky_entities :
          /\ entity.part = part
          /\ entity.mesh = "Loading"
          /\ LET ended == [entity EXCEPT !.mesh = outcome]
             IN IF entity \in zone_objects
                THEN /\ zone_objects' = (zone_objects \ {entity}) \cup {ended}
                     /\ UNCHANGED sky_entities
                ELSE /\ sky_entities' = (sky_entities \ {entity}) \cup {ended}
                     /\ UNCHANGED zone_objects
    /\ UNCHANGED <<load_zone_state, loading_current_zone, current_zone,
                   zone_events, zone_requests, load_zone_events>>
    /\ UNCHANGED outside_zone

NextZone ==
    \/ load_zone_system
    \/ \E zone_id \in ZoneIds : SendLoadZoneEvent(zone_id)
    \/ \E part \in MeshParts, outcome \in {"Loaded", "Failed"} :
          MeshLoadEnds(part, outcome)

----------------------------------------------------------------------------
\* npc_idle_sound_system, for one NPC entity.

MaxNpcFrames == 5      \* runs of the system
MaxLoopCount == 2      \* loops the idle animation completes

\* rng.gen_range(0..100) < 20
IdleSoundChance == 20
RollValues == {0, 19, 20, 99}

\* Faulty variant of LoopAlreadyRolled: the loop rolled last counts as new.
LoopAlreadyRolledStrict(last_idle_loop_count, loop_count) ==
    last_idle_loop_count > loop_count

\* if last_idle_loop_count >= skeletal_animation.current_loop_count() { continue; }
LoopAlreadyRolled(last_idle_loop_count, loop_count) ==
    last_idle_loop_count >= loop_count

NpcIdleSoundState(last_idle_loop_count) ==
    [last_idle_loop_count |-> last_idle_loop_count]

\* The body of the loop for one entity: the component afterwards, and whether
\* the roll was reached.
NpcIdleSound(state, cmd, loop_count) ==
    IF state = None
    THEN [state |-> Some(NpcIdleSoundState(None)), roll |-> FALSE, reset |-> FALSE]
    ELSE IF cmd # "stop"
    THEN [state |-> Some(NpcIdleSoundState(None)), roll |-> FALSE, reset |-> TRUE]
    ELSE LET last == state[1].last_idle_loop_count IN
         IF last # None /\ LoopAlreadyRolled(last[1], loop_count)
         THEN [state |-> state, roll |-> FALSE, reset |-> FALSE]
         ELSE [state |-> Some(NpcIdleSoundState(Some(loop_count))),
               roll |-> TRUE, reset |-> FALSE]

NpcInit ==
    /\ idle_sound_state = None
    /\ npc_command = "stop"
    /\ current_loop_count = 0
    /\ rolls = <<>>
    /\ idle_period = 0
    /\ npc_frames = 0

\* One run of npc_idle_sound_system; the insert of the component it queues is
\* applied before its next run.
npc_idle_sound_system(value) ==
    /\ npc_frames < MaxNpcFrames
    /\ npc_frames' = npc_frames + 1
    /\ LET run == NpcIdleSound(idle_sound_state, npc_command, current_loop_count)
       IN /\ idle_sound_state' = run.state
          /\ idle_period' = IF run.reset THEN idle_period + 1 ELSE idle_period
          /\ rolls' = IF run.roll
                      THEN Append(rolls, [loop_count |-> current_loop_count,
                                          period |-> idle_period,
                                          frame |-> npc_frames + 1,
                                          play |-> value < IdleSoundChance])
                      ELSE rolls
    /\ UNCHANGED <<npc_command, current_loop_count>>
    /\ UNCHANGED outside_npc

\* Another system gives the NPC a new command.
CommandChanges(cmd) ==
    /\ npc_command # cmd
    /\ npc_command' = cmd
    /\ UNCHANGED <<idle_sound_state, current_loop_count, rolls, idle_period,
                   npc_frames>>
    /\ UNCHANGED outside_npc

\* The animation completes a loop.
AnimationLoops ==
    /\ current_loop_count < MaxLoopCount
    /\ current_loop_count' = current_loop_count + 1
    /\ UNCHANGED <<idle_sound_state, npc_command, rolls, idle_period, npc_frames>>
    /\ UNCHANGED outside_npc

\* The entity gets a new SkeletalAnimation, which starts at loop 0.
AnimationRestarts ==
    /\ current_loop_count # 0
    /\ current_loop_count' = 0
    /\ UNCHANGED <<idle_sound_state, npc_command, rolls, idle_period, npc_frames>>
    /\ UNCHANGED outside_npc

NextNpc ==
    \/ \E value \in RollValues : npc_idle_sound_system(value)
    \/ \E cmd \in {"stop", "move"} : CommandChanges(cmd)
    \/ AnimationLoops
    \/ AnimationRestarts

----------------------------------------------------------------------------
\* quest_trigger_check_conditions, for the one player of the client.

MaxConditions == 3    \* conditions of a QuestTrigger

\* The player the conditions are checked against: the active quest slots by
\* quest id, the quest items held by the quest of each slot, the quest
\* switches, the ability values the data decoder knows, no clan.
ActiveQuests == <<Some(10), None, Some(20)>>
QuestItemQuantity == <<2, 0, 0>>
quest_switches == <<TRUE, FALSE>>
\* The ability type numbers decode_ability_type knows.
AbilityTypes == {31}
AbilityValue(ability_type) == 5
clan_membership == None
\* What get_quest_variable returns, by variable id.
QuestVariables == <<Some(7), None>>

quest_condition_operator(operator, value_lhs, value_rhs) ==
    CASE operator = "Equals" -> value_lhs = value_rhs
      [] operator = "GreaterThan" -> value_lhs > value_rhs
      [] operator = "GreaterThanEqual" -> value_lhs >= value_rhs
      [] operator = "LessThan" -> value_lhs < value_rhs
      [] operator = "LessThanEqual" -> value_lhs <= value_rhs
      [] operator = "NotEqual" -> value_lhs # value_rhs

\* A QsdCondition: its variant, the id it names (quest, switch, variable,
\* ability type), its operator and the value it compares with (1 and 0 for
\* the bool of QuestSwitch and HasClan).
QsdCondition(type, id, operator, value) ==
    [type |-> type, id |-> id, operator |-> operator, value |-> value]

ServerSideOnly == {"RandomPercent", "ObjectVariable", "SelectEventObject", "SelectNpc"}
\* Variants of QsdCondition the match has no arm for.
Unimplemented == {"Party", "WorldTime"}

\* quest_state.find_active_quest_index(quest_id), zero-based.
find_active_quest_index(quest_id) ==
    LET found == {i \in DOMAIN ActiveQuests : ActiveQuests[i] = Some(quest_id)}
    IN  IF found = {} THEN None
        ELSE Some((CHOOSE i \in found : \A j \in found : i <= j) - 1)

\* Each quest_condition_* function: the value it returns and the
\* selected_quest_index it leaves in the quest context.
Returns(value, selected) == [value |-> value, selected |-> selected]

quest_condition_ability_value(condition, selected) ==
    IF condition.id \notin AbilityTypes
    THEN Returns(FALSE, selected)
    ELSE Returns(quest_condition_operator(condition.operator,
                                          AbilityValue(condition.id),
                                          condition.value),
                 selected)

quest_condition_check_switch(condition, selected) ==
    IF condition.id + 1 \in DOMAIN quest_switches
    THEN Returns(quest_switches[condition.id + 1] = (condition.value = 1), selected)
    ELSE Returns(FALSE, selected)

\* For a quest item and no equipment index: the quantity of the item in the
\* selected quest, 0 without a selected quest.
quest_condition_quest_item(condition, selected) ==
    LET quantity == IF selected # None
                    THEN QuestItemQuantity[selected[1] + 1]
                    ELSE 0
    IN  Returns(quest_condition_operator(condition.operator, quantity,
                                         condition.value),
                selected)

quest_condition_quest_variable(condition, selected) ==
    LET variable_value == QuestVariables[condition.id + 1]
    IN  IF variable_value # None
        THEN Returns(quest_condition_operator(condition.operator,
                                              variable_value[1],
                                              condition.value),
                     selected)
        ELSE Returns(FALSE, selected)

quest_condition_select_quest(condition, selected) ==
    LET quest_index == find_active_quest_index(condition.id)
    IN  IF quest_index # None
        THEN Returns(TRUE, Some(quest_index[1]))
        ELSE Returns(FALSE, selected)

quest_condition_clan_position(condition, selected) ==
    LET value == IF clan_membership # None THEN clan_membership[1] ELSE 0
    IN  Returns(quest_condition_operator(condition.operator, value,
                                         condition.value),
                selected)

quest_condition_in_clan(condition, selected) ==
    Returns((clan_membership # None) = (condition.value = 1), selected)

\* The match on *condition.
MatchCondition(condition, selected) ==
    CASE condition.type = "AbilityValue" ->
            quest_condition_ability_value(condition, selected)
      [] condition.type = "QuestItem" ->
            quest_condition_quest_item(condition, selected)
      [] condition.type = "QuestVariable" ->
            quest_condition_quest_variable(condition, selected)
      [] condition.type = "QuestSwitch" ->
            quest_condition_check_switch(condition, selected)
      [] condition.type = "SelectQuest" ->
            quest_condition_select_quest(condition, selected)
      [] condition.type = "ClanPosition" ->
            quest_condition_clan_position(condition, selected)
      [] condition.type = "HasClan" ->
            quest_condition_in_clan(condition, selected)
      [] condition.type \in ServerSideOnly -> Returns(TRUE, selected)
      [] OTHER -> Returns(FALSE, selected)

\* Faulty variant of CheckConditions: every condition is evaluated, and the
\* value returned is whether all of them held.
RECURSIVE CheckConditionsAll(_, _, _)
CheckConditionsAll(conditions, selected, log) ==
    IF conditions = <<>>
    THEN [value |-> \A i \in DOMAIN log : log[i], selected |-> selected, log |-> log]
    ELSE LET matched == MatchCondition(Head(conditions), selected)
         IN  CheckConditionsAll(Tail(conditions), matched.selected,
                                Append(log, matched.value))

\* The loop of quest_trigger_check_conditions over the conditions left: the
\* value returned, the selected_quest_index left and the results logged.
RECURSIVE CheckConditions(_, _, _)
CheckConditions(conditions, selected, log) ==
    IF conditions = <<>>
    THEN [value |-> TRUE, selected |-> selected, log |-> log]
    ELSE LET matched == MatchCondition(Head(conditions), selected)
         IN  IF ~matched.value
             THEN [value |-> FALSE, selected |-> matched.selected,
                   log |-> Append(log, FALSE)]
             ELSE CheckConditions(Tail(conditions), matched.selected,
                                  Append(log, TRUE))

\* The conditions the triggers checked are made of.
ConditionInputs ==
    {QsdCondition("SelectQuest", 10, "Equals", 0),
     QsdCondition("SelectQuest", 20, "Equals", 0),
     QsdCondition("SelectQuest", 30, "Equals", 0),
     QsdCondition("QuestItem", 0, "GreaterThanEqual", 1),
     QsdCondition("QuestSwitch", 0, "Equals", 1),
     QsdCondition("QuestSwitch", 2, "Equals", 0),
     QsdCondition("AbilityValue", 31, "GreaterThan", 3),
     QsdCondition("AbilityValue", 99, "LessThan", 7),
     QsdCondition("QuestVariable", 0, "NotEqual", 7),
     QsdCondition("QuestVariable", 1, "LessThanEqual", 7),
     QsdCondition("ClanPosition", 0, "Equals", 0),
     QsdCondition("HasClan", 0, "Equals", 1),
     QsdCondition("RandomPercent", 0, "Equals", 0),
     QsdCondition("SelectNpc", 0, "Equals", 0),
     QsdCondition("Party", 0, "Equals", 0)}

QuestInit ==
    /\ quest_trigger = <<>>
    /\ selected_quest_index = None
    /\ check_result = None
    /\ condition_log = <<>>

\* The QuestTrigger to check has a further condition.
AddCondition(condition) ==
    /\ check_result = None
    /\ Len(quest_trigger) < MaxConditions
    /\ quest_trigger' = Append(quest_trigger, condition)
    /\ UNCHANGED <<selected_quest_index, check_result, condition_log>>
    /\ UNCHANGED outside_quest

\* The call of quest_trigger_check_conditions on a new quest context.
quest_trigger_check_conditions ==
    LET checked == CheckConditions(quest_trigger, selected_quest_index, <<>>)
    IN  /\ check_result = None
        /\ selected_quest_index' = checked.selected
        /\ check_result' = Some(checked.value)
        /\ condition_log' = checked.log
        /\ UNCHANGED quest_trigger
        /\ UNCHANGED outside_quest

NextQuest ==
    \/ \E condition \in ConditionInputs : AddCondition(condition)
    \/ quest_trigger_check_conditions

----------------------------------------------------------------------------
\* load_block_object, for one object of a ZSC file.

MaxParts == 3        \* parts of the object
NumMeshes == 4       \* zsc.meshes.len()
NumMaterials == 3    \* zsc.materials.len()

MeshIds == 0..(NumMeshes - 1)
MaterialIds == 0..(NumMaterials - 1)
\* The materials whose texture has a normal map in the VFS.
WithNormalTexture == {1}

\* vec![None; len]
VecOfNone(len) == [i \in 1..len |-> None]

\* Vec::insert(index, element): the elements from index on move one place to
\* the right.
VecInsert(vec, index, element) ==
    SubSeq(vec, 1, index) \o <<element>> \o SubSeq(vec, index + 1, Len(vec))

\* asset_server.load(zsc.meshes[mesh_id].path()): the handle of that mesh.
MeshHandle(mesh_id) == [mesh |-> mesh_id]

\* The material the closure builds from zsc.materials[material_id].
LoadedMaterial(material_id) ==
    [kind |-> IF material_id \in WithNormalTexture THEN "Standard" ELSE "Static",
     material |-> material_id]

\* mesh_cache[mesh_id].clone().unwrap_or_else(|| ..): the handle the part gets
\* and the cache afterwards.
CachedMesh(cache, mesh_id) ==
    IF cache[mesh_id + 1] # None
    THEN [value |-> cache[mesh_id + 1][1], cache |-> cache]
    ELSE [value |-> MeshHandle(mesh_id),
          cache |-> VecInsert(cache, mesh_id, Some(MeshHandle(mesh_id)))]

\* material_cache[material_id].clone().unwrap_or_else(|| ..)
CachedMaterial(cache, material_id) ==
    IF cache[material_id + 1] # None
    THEN [value |-> cache[material_id + 1][1], cache |-> cache]
    ELSE [value |-> LoadedMaterial(material_id),
          cache |-> VecInsert(cache, material_id, Some(LoadedMaterial(material_id)))]

BlockInit ==
    /\ block_pc = "idle"
    /\ mesh_cache = <<>>
    /\ material_cache = <<>>
    /\ part_entities = <<>>

\* load_block_object up to its loop: the two caches are created.
load_block_object ==
    /\ block_pc = "idle"
    /\ block_pc' = "parts"
    /\ mesh_cache' = VecOfNone(NumMeshes)
    /\ material_cache' = VecOfNone(NumMaterials)
    /\ UNCHANGED part_entities
    /\ UNCHANGED outside_block

\* One iteration of the loop over object.parts, for a part with these ids.
SpawnPart(mesh_id, material_id) ==
    LET mesh == CachedMesh(mesh_cache, mesh_id)
        material == CachedMaterial(material_cache, material_id)
    IN  /\ block_pc = "parts"
        /\ Len(part_entities) < MaxParts
        /\ mesh_cache' = mesh.cache
        /\ material_cache' = material.cache
        /\ part_entities' = Append(part_entities,
                                   [mesh_id |-> mesh_id, mesh |-> mesh.value,
                                    material_id |-> material_id,
                                    material |-> material.value])
        /\ UNCHANGED block_pc
        /\ UNCHANGED outside_block

\* The loop ends: object.parts has no further part.
BlockObjectSpawned ==
    /\ block_pc = "parts"
    /\ block_pc' = "done"
    /\ UNCHANGED <<mesh_cache, material_cache, part_entities>>
    /\ UNCHANGED outside_block

NextBlock ==
    \/ load_block_object
    \/ \E mesh_id \in MeshIds, material_id \in MaterialIds :
          SpawnPart(mesh_id, material_id)
    \/ BlockObjectSpawned

----------------------------------------------------------------------------
\* The session.

NoEvent == [branch |-> "none", kind |-> "none", id |-> 0]

Init ==
    /\ pc = "start"
    /\ result = "None"
    /\ connects = 0
    /\ socket = "open"
    /\ socket_in = <<>>
    /\ arrived = <<>>
    /\ client_message_rx = <<>>
    /\ enqueued = <<>>
    /\ tx_open = TRUE
    /\ client_dropped = FALSE
    /\ server_message_tx = <<>>
    /\ rx_alive = TRUE
    /\ written = <<>>
    /\ event = NoEvent
    /\ MainInit
    /\ ZoneInit
    /\ NpcInit
    /\ QuestInit
    /\ BlockInit

Return(error) ==
    /\ pc' = "done"
    /\ result' = error

Continue ==
    /\ pc' = "select"
    /\ result' = result

\* Faulty variant of Connect: a session that has ended connects again.
ConnectRetries ==
    /\ pc \in {"start", "done"}
    /\ connects' = connects + 1
    /\ pc' = "select"
    /\ result' = "None"
    /\ UNCHANGED <<socket, socket_in, arrived, client_message_rx, enqueued,
                   tx_open, client_dropped, server_message_tx, rx_alive,
                   written, event>>
    /\ UNCHANGED outside_session

\* TcpStream::connect(&self.server_address).await?
Connect ==
    /\ pc = "start"
    /\ connects' = connects + 1
    /\ \/ /\ socket = "open"
          /\ Continue
       \/ Return("ConnectError")
    /\ UNCHANGED <<socket, socket_in, arrived, client_message_rx, enqueued,
                   tx_open, client_dropped, server_message_tx, rx_alive,
                   written, event>>
    /\ UNCHANGED outside_session

\* The first branch of the select!: connection.read_packet() completed.
ReadBranch ==
    /\ pc = "select"
    /\ \/ /\ socket_in # <<>>
          /\ LET packet == Head(socket_in)
                 r == handle_packet(packet)
             IN /\ socket_in' = Tail(socket_in)
                /\ event' = [branch |-> "read", kind |-> "item", id |-> packet.data]
                /\ server_message_tx' = ChannelSend(server_message_tx, r.send)
                /\ IF r.ret = "Ok" THEN Continue ELSE Return("DecodeError")
       \/ /\ socket_in = <<>>
          /\ socket # "open"
          /\ event' = [branch |-> "read", kind |-> "error", id |-> 0]
          /\ Return("ReadError")
          /\ UNCHANGED <<socket_in, server_message_tx>>
    /\ UNCHANGED <<connects, socket, arrived, client_message_rx, enqueued,
                   tx_open, client_dropped, rx_alive, written>>
    /\ UNCHANGED outside_session

\* Faulty variant of RecvBranch: the closed queue is reported like a failed read.
RecvBranchClosedIsReadError ==
    /\ pc = "select"
    /\ \/ /\ client_message_rx # <<>>
          /\ LET message == Head(client_message_rx)
                 r == handle_client_message(message)
             IN /\ client_message_rx' = Tail(client_message_rx)
                /\ event' = [branch |-> "recv", kind |-> "item", id |-> message.data]
                /\ written' = written \o r.write
                /\ IF r.ret = "Ok" THEN Continue ELSE Return("WriteError")
       \/ /\ client_message_rx = <<>>
          /\ ~tx_open
          /\ event' = [branch |-> "recv", kind |-> "closed", id |-> 0]
          /\ Return("ReadError")
          /\ UNCHANGED <<client_message_rx, written>>
    /\ UNCHANGED <<connects, socket, socket_in, arrived, enqueued, tx_open,
                   client_dropped, server_message_tx, rx_alive>>
    /\ UNCHANGED outside_session

\* Faulty variant of RecvBranch: when the outbound message wins the race, the
\* packet the cancelled read was about to yield is lost.
RecvBranchCancelsRead ==
    /\ pc = "select"
    /\ \/ /\ client_message_rx # <<>>
          /\ LET message == Head(client_message_rx)
                 r == handle_client_message(message)
             IN /\ client_message_rx' = Tail(client_message_rx)
                /\ event' = [branch |-> "recv", kind |-> "item", id |-> message.data]
                /\ written' = written \o r.write
                /\ IF r.ret = "Ok" THEN Continue ELSE Return("WriteError")
          /\ socket_in' = IF socket_in = <<>> THEN socket_in ELSE Tail(socket_in)
       \/ /\ client_message_rx = <<>>
          /\ ~tx_open
          /\ event' = [branch |-> "recv", kind |-> "closed", id |-> 0]
          /\ Return("ClientInitiatedDisconnect")
          /\ UNCHANGED <<client_message_rx, written, socket_in>>
    /\ UNCHANGED <<connects, socket, arrived, enqueued, tx_open,
                   client_dropped, server_message_tx, rx_alive>>
    /\ UNCHANGED outside_session

\* Faulty variant of RecvBranch: a select! that polls the read first
\* (`biased;`), so the queue is looked at only when no packet is ready.
RecvBranchBiased ==
    /\ pc = "select"
    /\ socket_in = <<>>
    /\ \/ /\ client_message_rx # <<>>
          /\ LET message == Head(client_message_rx)
                 r == handle_client_message(message)
             IN /\ client_message_rx' = Tail(client_message_rx)
                /\ event' = [branch |-> "recv", kind |-> "item", id |-> message.data]
                /\ written' = written \o r.write
                /\ IF r.ret = "Ok" THEN Continue ELSE Return("WriteError")
       \/ /\ client_message_rx = <<>>
          /\ ~tx_open
          /\ event' = [branch |-> "recv", kind |-> "closed", id |-> 0]
          /\ Return("ClientInitiatedDisconnect")
          /\ UNCHANGED <<client_message_rx, written>>
    /\ UNCHANGED <<connects, socket, socket_in, arrived, enqueued, tx_open,
                   client_dropped, server_message_tx, rx_alive>>
    /\ UNCHANGED outside_session

\* The second branch of the select!: self.client_message_rx.recv() completed.
RecvBranch ==
    /\ pc = "select"
    /\ \/ /\ client_message_rx # <<>>
          /\ LET message == Head(client_message_rx)
                 r == handle_client_message(message)
             IN /\ client_message_rx' = Tail(client_message_rx)
                /\ event' = [branch |-> "recv", kind |-> "item", id |-> message.data]
                /\ written' = written \o r.write
                /\ IF r.ret = "Ok" THEN Continue ELSE Return("WriteError")
       \/ /\ client_message_rx = <<>>
          /\ ~tx_open
          /\ event' = [branch |-> "recv", kind |-> "closed", id |-> 0]
          /\ Return("ClientInitiatedDisconnect")
          /\ UNCHANGED <<client_message_rx, written>>
    /\ UNCHANGED <<connects, socket, socket_in, arrived, enqueued, tx_open,
                   client_dropped, server_message_tx, rx_alive>>
    /\ UNCHANGED outside_session

\* pub async fn run_connection: connect, then loop over the select!.
run_connection == Connect \/ ReadBranch \/ RecvBranch

----------------------------------------------------------------------------
\* The server, the network and the application.

\* The packets a server can put on the wire for the given commands: the
\* payload of a command with an arm is well-formed or not, and a well-formed
\* ConnectReply carries a result. The payload of a command without an arm is
\* never decoded, so one payload stands for all of them.
PacketInputs(commands) ==
    {in \in [command : commands, valid : BOOLEAN, result : ConnectResults] :
        /\ (in.command # "ConnectReply" \/ ~in.valid) => in.result = "Ok"
        /\ in.command \notin ServerPacketsHandled => in.valid}

\* The server delivers one more packet on the stream.
PacketArrives(in) ==
    /\ socket = "open"
    /\ pc # "start" /\ result # "ConnectError"
    /\ Len(arrived) < MaxPackets
    /\ LET packet == [command |-> in.command, valid |-> in.valid,
                      result |-> in.result, data |-> Len(arrived) + 1]
       IN /\ socket_in' = Append(socket_in, packet)
          /\ arrived' = Append(arrived, packet)
    /\ UNCHANGED <<pc, result, connects, socket, client_message_rx, enqueued,
                   tx_open, client_dropped, server_message_tx, rx_alive,
                   written, event>>
    /\ UNCHANGED outside_session

\* The peer closes its side of the stream, or the connection is reset.
SocketFails(state) ==
    /\ socket = "open" \/ (socket = "eof" /\ state = "reset")
    /\ socket' = state
    /\ UNCHANGED <<pc, result, connects, socket_in, arrived, client_message_rx,
                   enqueued, tx_open, client_dropped, server_message_tx,
                   rx_alive, written, event>>
    /\ UNCHANGED outside_session

\* Faulty variant of SendClientMessage: a channel of capacity one, whose send
\* waits until the session has taken the previous message.
SendClientMessageBounded(variant) ==
    /\ tx_open
    /\ Len(enqueued) < MaxMessages
    /\ Len(client_message_rx) < 1
    /\ IF client_dropped
       THEN UNCHANGED <<client_message_rx, enqueued>>
       ELSE LET message == [variant |-> variant, data |-> Len(enqueued) + 1]
            IN /\ client_message_rx' = Append(client_message_rx, message)
               /\ enqueued' = Append(enqueued, message)
    /\ UNCHANGED <<pc, result, connects, socket, socket_in, arrived, tx_open,
                   client_dropped, server_message_tx, rx_alive, written, event>>
    /\ UNCHANGED outside_session

\* game_connection.client_message_tx.send(message).ok() in the frame loop.
SendClientMessage(variant) ==
    /\ tx_open
    /\ Len(enqueued) < MaxMessages
    /\ IF client_dropped
       THEN UNCHANGED <<client_message_rx, enqueued>>
       ELSE LET message == [variant |-> variant, data |-> Len(enqueued) + 1]
            IN /\ client_message_rx' = Append(client_message_rx, message)
               /\ enqueued' = Append(enqueued, message)
    /\ UNCHANGED <<pc, result, connects, socket, socket_in, arrived, tx_open,
                   client_dropped, server_message_tx, rx_alive, written, event>>
    /\ UNCHANGED outside_session

\* The application drops every client_message_tx sender.
DropSenders ==
    /\ tx_open
    /\ tx_open' = FALSE
    /\ UNCHANGED <<pc, result, connects, socket, socket_in, arrived,
                   client_message_rx, enqueued, client_dropped,
                   server_message_tx, rx_alive, written, event>>
    /\ UNCHANGED outside_session

\* The application drops the receiver of the ServerMessage channel.
DropReceiver ==
    /\ rx_alive
    /\ rx_alive' = FALSE
    /\ UNCHANGED <<pc, result, connects, socket, socket_in, arrived,
                   client_message_rx, enqueued, tx_open, client_dropped,
                   server_message_tx, written, event>>
    /\ UNCHANGED outside_session

\* After run_connection has returned its owner drops the GameClient.
DropGameClient ==
    /\ pc = "done"
    /\ ~client_dropped
    /\ client_dropped' = TRUE
    /\ UNCHANGED <<pc, result, connects, socket, socket_in, arrived,
                   client_message_rx, enqueued, tx_open, server_message_tx,
                   rx_alive, written, event>>
    /\ UNCHANGED outside_session

\* The commands and messages drawn in the specification of the whole session:
\* a command with an arm and one without, and messages with and without an arm.
SampleCommands == {"MoveEntityWithMoveMode", "NotAServerPacket"}
SampleMessages == {"ConnectionRequest", "Chat", "Attack"}

Next ==
    \/ run_connection
    \/ \E in \in PacketInputs(SampleCommands) : PacketArrives(in)
    \/ \E state \in {"eof", "reset"} : SocketFails(state)
    \/ \E variant \in SampleMessages : SendClientMessage(variant)
    \/ DropSenders
    \/ DropReceiver
    \/ DropGameClient

Spec == Init /\ [][Next]_vars

\* The inbound direction alone, with every command of the protocol.
NextDispatch ==
    \/ Connect
    \/ ReadBranch
    \/ \E in \in PacketInputs(Commands) : PacketArrives(in)
    \/ \E state \in {"eof", "reset"} : SocketFails(state)
    \/ DropReceiver

SpecDispatch == Init /\ [][NextDispatch]_vars

\* The outbound direction alone, with every sampled ClientMessage variant.
NextEncode ==
    \/ Connect
    \/ RecvBranch
    \/ \E state \in {"eof", "reset"} : SocketFails(state)
    \/ \E variant \in ClientMessages : SendClientMessage(variant)
    \/ DropSenders
    \/ DropGameClient

SpecEncode == Init /\ [][NextEncode]_vars

\* main from the command line to its last statement, and the network thread.
SpecMain == Init /\ [][NextMain]_vars

\* load_zone_system, the senders of LoadZoneEvents and the asset server.
SpecZone == Init /\ [][NextZone]_vars

\* quest_trigger_check_conditions called with a trigger of some conditions.
SpecQuest == Init /\ [][NextQuest]_vars

\* load_block_object for an object with some parts.
SpecBlock == Init /\ [][NextBlock]_vars

\* The same with the scheduling of the application: load_zone_system runs in
\* every frame, and the asset server ends the load of every mesh, one way or
\* the other.
SpecZoneFair ==
    /\ Init
    /\ [][NextZone]_vars
    /\ WF_vars(load_zone_system)
    /\ \A part \in MeshParts :
          WF_vars(\E outcome \in {"Loaded", "Failed"} : MeshLoadEnds(part, outcome))

\* npc_idle_sound_system and the systems that drive the NPC.
SpecNpc == Init /\ [][NextNpc]_vars

\* The packets a server or a faulty link can put on the wire when the payload
\* of any packet may be cut short, whether its command has an arm or not.
WireInputs(commands) ==
    {in \in [command : commands, valid : BOOLEAN, result : ConnectResults] :
        (in.command # "ConnectReply" \/ ~in.valid) => in.result = "Ok"}

\* The inbound direction fed with whole and truncated packets. A frame that
\* is cut short by the end of the stream never becomes a packet: that is
\* SocketFails with nothing more to read.
NextTruncated ==
    \/ Connect
    \/ ReadBranch
    \/ \E in \in WireInputs(Commands) : PacketArrives(in)
    \/ \E state \in {"eof", "reset"} : SocketFails(state)

SpecTruncated == Init /\ [][NextTruncated]_vars

\* The application takes the ServerMessages out of the crossbeam channel; the
\* packets they came from are complete and leave the history.
ServerMessagesTaken ==
    /\ pc = "select"
    /\ rx_alive
    /\ arrived # <<>>
    /\ socket_in = <<>>
    /\ arrived' = <<>>
    /\ server_message_tx' = <<>>
    /\ UNCHANGED <<pc, result, connects, socket, socket_in, client_message_rx,
                   enqueued, tx_open, client_dropped, rx_alive, written, event>>
    /\ UNCHANGED outside_session

\* The peer has received what was written to the socket; the messages behind
\* it are complete and leave the history.
PacketsDelivered ==
    /\ pc = "select"
    /\ enqueued # <<>>
    /\ client_message_rx = <<>>
    /\ enqueued' = <<>>
    /\ written' = <<>>
    /\ UNCHANGED <<pc, result, connects, socket, socket_in, arrived,
                   client_message_rx, tx_open, client_dropped,
                   server_message_tx, rx_alive, event>>
    /\ UNCHANGED outside_session

\* A session that never runs out of traffic: both peers keep taking what the
\* session produced, so packets and messages can keep coming.
NextFair ==
    \/ Connect
    \/ ReadBranch
    \/ RecvBranch
    \/ \E in \in PacketInputs({"MoveEntityWithMoveMode"}) : PacketArrives(in)
    \/ \E state \in {"eof", "reset"} : SocketFails(state)
    \/ SendClientMessage("Chat")
    \/ DropSenders
    \/ ServerMessagesTaken
    \/ PacketsDelivered

\* tokio::select! starts polling at a branch chosen at random, so a branch
\* that stays ready is not passed over for ever; the task itself is polled
\* by the runtime until it completes.
SpecFair ==
    /\ Init
    /\ [][NextFair]_vars
    /\ WF_vars(Connect)
    /\ WF_vars(ReadBranch)
    /\ WF_vars(RecvBranch)

----------------------------------------------------------------------------
\* What a step of the loop serviced.

Serviced == event' # event
ReadPacket == Serviced /\ event'.branch = "read" /\ event'.kind = "item"
ReadError == Serviced /\ event'.branch = "read" /\ event'.kind = "error"
RecvMessage == Serviced /\ event'.branch = "recv" /\ event'.kind = "item"
RecvClosed == Serviced /\ event'.branch = "recv" /\ event'.kind = "closed"

\* The packet, or the message, the last event was about.
EventPacket(e) == arrived[e.id]
EventMessage(e) == enqueued[e.id]

Recognized(packet) == packet.command \in ServerPacketsHandled

----------------------------------------------------------------------------
\* Properties of the session loop.

\* C1: a step that reads a packet whose command handle_packet has no arm for
\* leaves the loop running (handle_packet returned Ok), returns nothing and
\* forwards no ServerMessage.
C1_UnknownOpcodeNonFatal ==
    [][(ReadPacket /\ ~Recognized(EventPacket(event')))
          => /\ pc' = "select"
             /\ result' = "None"
             /\ server_message_tx' = server_message_tx]_vars

\* C1 witness: the first packet had no arm, and the loop went on to read the
\* second packet and forwarded its message.
C1_Witness ==
    /\ Len(arrived) = 2
    /\ ~Recognized(arrived[1])
    /\ event = [branch |-> "read", kind |-> "item", id |-> 2]
    /\ Len(server_message_tx) = 1
    /\ server_message_tx[1].data = 2

\* C2: when recv() yields None (the queue is empty and every sender is
\* dropped) the session ends with ClientInitiatedDisconnect; and that value
\* is returned for no other cause.
C2_ClientInitiatedDisconnect ==
    /\ [][RecvClosed => /\ client_message_rx = <<>>
                        /\ ~tx_open
                        /\ pc = "select"
                        /\ pc' = "done"
                        /\ result' = "ClientInitiatedDisconnect"]_vars
    /\ [][(pc = "select" /\ pc' = "done" /\ ~RecvClosed)
             => result' # "ClientInitiatedDisconnect"]_vars
    /\ [](result = "ClientInitiatedDisconnect"
             => /\ pc = "done"
                /\ ~tx_open
                /\ client_message_rx = <<>>
                /\ event.kind = "closed")

\* C2 witness: the senders were dropped after a message had been written, and
\* the session ended with the distinguished value while the socket was open.
C2_Witness ==
    /\ result = "ClientInitiatedDisconnect"
    /\ socket = "open"
    /\ Len(written) >= 1

\* C3: a step that reads a packet with an arm whose payload does not decode
\* ends the session with the decode error and forwards nothing; while the
\* result is the decode error, the malformed packet is the last event the
\* loop serviced.
C3_DecodeErrorFatal ==
    /\ [][(ReadPacket /\ Recognized(EventPacket(event'))
              /\ ~EventPacket(event').valid)
             => /\ pc' = "done"
                /\ result' = "DecodeError"
                /\ server_message_tx' = server_message_tx]_vars
    /\ [](result = "DecodeError"
             => /\ pc = "done"
                /\ event.branch = "read" /\ event.kind = "item"
                /\ Recognized(EventPacket(event))
                /\ ~EventPacket(event).valid
                /\ Len(socket_in) = Len(arrived) - event.id
                /\ \A i \in DOMAIN server_message_tx :
                      server_message_tx[i].data # event.id)

\* C3 witness: a malformed packet ended the session while a later packet and
\* an outbound message were waiting.
C3_Witness ==
    /\ result = "DecodeError"
    /\ event.id = 1
    /\ Len(socket_in) = 1
    /\ client_message_rx # <<>>

\* C4: a failed connect, a failed read and a failed write each end the
\* session with that error, and the failing operation is the last thing the
\* session did.
C4_TransportFailureFatal ==
    /\ [][(pc = "start" /\ pc' # "start")
             => /\ connects' = connects + 1
                /\ \/ pc' = "select" /\ result' = "None"
                   \/ pc' = "done" /\ result' = "ConnectError"]_vars
    /\ [][ReadError => pc' = "done" /\ result' = "ReadError"]_vars
    /\ [][(RecvMessage /\ socket = "reset"
              /\ EventMessage(event').variant \in ClientMessagesImplemented)
             => /\ pc' = "done"
                /\ result' = "WriteError"
                /\ written' = written]_vars
    /\ [](result = "ConnectError" => pc = "done" /\ event = NoEvent)
    /\ [](result = "ReadError" => pc = "done" /\ event.kind = "error")
    /\ [](result = "WriteError"
             => /\ pc = "done"
                /\ event.branch = "recv" /\ event.kind = "item"
                /\ Len(client_message_rx) = Len(enqueued) - event.id)

\* C4 witness: a write failed on a reset connection and ended the session
\* while a packet and a message were still waiting.
C4_Witness ==
    /\ result = "WriteError"
    /\ socket_in # <<>>
    /\ client_message_rx # <<>>

\* C5: at most one connection is ever opened, and once run_connection has
\* returned nothing changes any more: the result stays, no packet is read, no
\* message is dequeued or forwarded, no packet is written, no connect is made.
C5_TerminationIrreversible ==
    /\ [](connects <= 1)
    /\ [](pc # "start" => connects = 1)
    /\ [][pc = "done"
             => /\ pc' = "done"
                /\ result' = result
                /\ connects' = connects
                /\ event' = event
                /\ server_message_tx' = server_message_tx
                /\ written' = written
                /\ Len(socket_in') >= Len(socket_in)
                /\ Len(client_message_rx') >= Len(client_message_rx)]_vars

\* C5 witness: the session has ended and its client has been dropped, with a
\* delivered packet and an enqueued message that nobody serviced.
C5_Witness ==
    /\ pc = "done"
    /\ client_dropped
    /\ result = "ClientInitiatedDisconnect"
    /\ socket_in # <<>>

\* C6: the session ends only by a failed connect, read or write, by a decode
\* error on a packet with an arm, or by the closed queue, and never with Ok;
\* every other step of the loop (a command without an arm, a message variant
\* without an arm, a send to a dropped receiver) leaves the loop running.
C6_TerminationCauses ==
    /\ [](result \in {"None", "ConnectError", "ReadError", "WriteError",
                      "DecodeError", "ClientInitiatedDisconnect"})
    /\ [](pc = "done" <=> result # "None")
    /\ [][(pc = "start" /\ pc' = "done") => result' = "ConnectError"]_vars
    /\ [][(pc = "select" /\ pc' = "done")
             => \/ /\ ReadError
                   /\ socket # "open"
                   /\ result' = "ReadError"
                \/ /\ RecvMessage
                   /\ socket = "reset"
                   /\ EventMessage(event').variant \in ClientMessagesImplemented
                   /\ result' = "WriteError"
                \/ /\ ReadPacket
                   /\ Recognized(EventPacket(event'))
                   /\ ~EventPacket(event').valid
                   /\ result' = "DecodeError"
                \/ /\ RecvClosed
                   /\ result' = "ClientInitiatedDisconnect"]_vars
    /\ [][(ReadPacket /\ (~Recognized(EventPacket(event'))
                             \/ EventPacket(event').valid))
             => pc' = "select"]_vars
    /\ [][(RecvMessage
              /\ (EventMessage(event').variant \notin ClientMessagesImplemented
                    \/ socket # "reset"))
             => pc' = "select"]_vars

\* C6 witness: the loop is still running after a send to a dropped receiver,
\* a command without an arm and a message variant without an arm.
C6_Witness ==
    /\ pc = "select"
    /\ ~rx_alive
    /\ Len(arrived) = 2
    /\ socket_in = <<>>
    /\ Recognized(arrived[1]) /\ arrived[1].valid
    /\ ~Recognized(arrived[2])
    /\ server_message_tx = <<>>
    /\ Len(enqueued) >= 1
    /\ enqueued[1].variant = "Attack"
    /\ client_message_rx = <<>>

NumRead == Len(arrived) - Len(socket_in)
NumDequeued == Len(enqueued) - Len(client_message_rx)

IsPrefix(s, t) == Len(s) <= Len(t) /\ s = SubSeq(t, 1, Len(s))

\* The messages handle_packet hands to the channel for a sequence of packets.
RECURSIVE ExpectedMessages(_)
ExpectedMessages(packets) ==
    IF packets = <<>> THEN <<>>
    ELSE handle_packet(Head(packets)).send \o ExpectedMessages(Tail(packets))

\* The packets handle_client_message builds for a sequence of messages.
RECURSIVE ExpectedPackets(_)
ExpectedPackets(messages) ==
    IF messages = <<>> THEN <<>>
    ELSE (IF Head(messages).variant \in ClientMessagesImplemented
          THEN <<PacketFrom(Head(messages))>> ELSE <<>>)
         \o ExpectedPackets(Tail(messages))

C8_EnqueueNeverBlocks ==
    /\ []((tx_open /\ Len(enqueued) < MaxMessages)
             => \A variant \in SampleMessages :
                   ENABLED SendClientMessage(variant))
    /\ [][enqueued' # enqueued
             => /\ ~client_dropped
                /\ client_message_rx' = Append(client_message_rx,
                                               enqueued'[Len(enqueued')])
                /\ UNCHANGED <<pc, result, connects, socket, socket_in,
                               server_message_tx, written, event>>]_vars
    /\ [][client_dropped
             => UNCHANGED <<client_message_rx, enqueued, pc, result>>]_vars

\* C8 witness: the connection is reset and the session has ended, and the
\* queue holds every message the application sent.
C8_Witness ==
    /\ socket = "reset"
    /\ pc = "done"
    /\ tx_open
    /\ Len(client_message_rx) = MaxMessages

\* The ServerMessage variant of each command with an arm.
ExpectedVariant(command) ==
    CASE command = "ConnectReply" -> "ConnectionResponse"
      [] command = "SelectCharacter" -> "CharacterData"
      [] command = "CharacterInventory" -> "CharacterDataItems"
      [] command = "QuestData" -> "CharacterDataQuest"
      [] command \in {"MoveEntity", "MoveEntityWithMoveMode"} -> "MoveEntity"
      [] OTHER -> command

\* C9: a step that reads a packet with an arm whose payload decodes appends
\* exactly one ServerMessage to the channel, of the variant of the command and
\* carrying the packet's data (ConnectionResponse is Ok exactly for
\* ConnectResult::Ok), and leaves the loop running; without a receiver the
\* send is lost and the channel stays as it was.
C9_OneMessagePerPacket ==
    [][(ReadPacket /\ Recognized(EventPacket(event'))
          /\ EventPacket(event').valid)
         => LET packet == EventPacket(event')
                n == Len(server_message_tx)
            IN /\ pc' = "select"
               /\ IF rx_alive
                  THEN /\ Len(server_message_tx') = n + 1
                       /\ SubSeq(server_message_tx', 1, n) = server_message_tx
                       /\ LET m == server_message_tx'[n + 1]
                          IN /\ m.variant = ExpectedVariant(packet.command)
                             /\ IF packet.command = "ConnectReply"
                                THEN /\ m.ok <=> packet.result = "Ok"
                                     /\ m.data = IF m.ok THEN packet.data ELSE 0
                                ELSE m.ok /\ m.data = packet.data
                  ELSE server_message_tx' = server_message_tx]_vars

\* C9 witness: a ConnectReply with a result other than Ok was forwarded as a
\* failed ConnectionResponse, followed by the MoveEntity of a
\* MoveEntityWithMoveMode packet.
C9_Witness ==
    /\ Len(server_message_tx) = 2
    /\ arrived[1].command = "ConnectReply"
    /\ arrived[1].result = "InvalidPassword"
    /\ server_message_tx[1] = Message("ConnectionResponse", FALSE, 0)
    /\ arrived[2].command = "MoveEntityWithMoveMode"
    /\ server_message_tx[2] = Message("MoveEntity", TRUE, 2)

\* The wire struct of each ClientMessage variant with an arm.
ExpectedWire(variant) ==
    CASE variant = "ConnectionRequest" -> "PacketClientConnectRequest"
      [] variant = "JoinZoneRequest" -> "PacketClientJoinZone"
      [] variant = "Move" -> "PacketClientMove"
      [] variant = "Chat" -> "PacketClientChat"

\* C10 as stated: every dequeued message, whatever its variant, adds one
\* packet to what is written (the connection not being reset).
C10_EveryMessageWritten ==
    [][(RecvMessage /\ socket # "reset")
         => Len(written') = Len(written) + 1]_vars

\* C10 amended: a dequeued message of variant ConnectionRequest,
\* JoinZoneRequest, Move or Chat is written as one packet of its wire struct
\* (or ends the session with the write error on a reset connection); a
\* message of any other variant is dropped without a write and the loop
\* goes on.
C10_ImplementedMessageWritten ==
    [][RecvMessage
         => LET message == EventMessage(event')
            IN IF message.variant \in {"ConnectionRequest", "JoinZoneRequest",
                                       "Move", "Chat"}
               THEN IF socket = "reset"
                    THEN /\ written' = written
                         /\ pc' = "done"
                         /\ result' = "WriteError"
                    ELSE /\ written' = Append(written,
                              [command |-> ExpectedWire(message.variant),
                               data |-> message.data])
                         /\ pc' = "select"
               ELSE /\ written' = written
                    /\ pc' = "select"]_vars

\* C10 witness: a message without an arm was dequeued and dropped, and the
\* Move message after it was written as a PacketClientMove.
C10_Witness ==
    /\ Len(enqueued) = 2
    /\ enqueued[1].variant = "Attack"
    /\ enqueued[2].variant = "Move"
    /\ client_message_rx = <<>>
    /\ written = <<[command |-> "PacketClientMove", data |-> 2]>>
    /\ pc = "select"


----------------------------------------------------------------------------
\* C11: neither direction starves the other. Under fair scheduling of the two
\* branches of the select!, every packet that arrived on the socket is
\* eventually read and dispatched and every ClientMessage that entered the
\* queue is eventually dequeued and handled, unless the session ends first,
\* and this even when the other direction always has something ready.
C11_NeitherDirectionStarves ==
    /\ \A i \in 1..MaxPackets :
          (Len(arrived) >= i) ~> (NumRead >= i \/ pc = "done")
    /\ \A i \in 1..MaxMessages :
          (Len(enqueued) >= i) ~> (NumDequeued >= i \/ pc = "done")

\* A message was dequeued and handled while the inbound direction had as many
\* packets ready as it can hold.
C11_Witness ==
    /\ pc = "select"
    /\ Len(socket_in) = MaxPackets
    /\ event.branch = "recv" /\ event.kind = "item"
    /\ event.id = MaxMessages
    /\ client_message_rx = <<>>


----------------------------------------------------------------------------
\* The payload of the packet is shorter than the structure of its command.
Truncated(packet) == ~packet.valid

----------------------------------------------------------------------------
\* The Exit signals main has sent.
ExitsSent == Cardinality({i \in DOMAIN sent : sent[i] = "Exit"})

\* C14: the network thread is started before app.run() begins; Exit is sent
\* only by the statement after app.run() has returned, and once: never before
\* that statement, exactly once after it; and main ends only by joining a
\* thread that has ended.
C14_NetworkThreadLifecycle ==
    /\ [](main_pc \in {"run", "exit", "join", "done"} => network_thread # "unspawned")
    /\ [](frame # <<>> => network_thread # "unspawned")
    /\ [](main_pc \notin {"join", "done"} => ExitsSent = 0)
    /\ [](main_pc \in {"join", "done"} => ExitsSent = 1)
    /\ [][sent' # sent
             => /\ main_pc = "exit"
                /\ Len(frame) = Len(schedule)
                /\ sent' = Append(sent, "Exit")]_vars
    /\ [][(main_pc # "done" /\ main_pc' = "done")
             => /\ main_pc = "join"
                /\ network_thread = "exited"
                /\ network_thread' = "joined"]_vars
    /\ [](main_pc = "done" => network_thread = "joined")

\* C14 witness: main has ended after a whole frame, one Exit was sent and the
\* thread is joined.
C14_Witness ==
    /\ main_pc = "done"
    /\ sent = <<"Exit">>
    /\ network_thread = "joined"
    /\ Len(frame) = Len(schedule)


----------------------------------------------------------------------------
\* main has inserted the ServerConfiguration; main has set up the events.
Configured == main_pc \notin {"get_matches", "configure"}
StartupEventsQueued == Configured /\ main_pc # "events"

\* C15 as stated: the port of the ServerConfiguration is the value of --port,
\* and "29000" when --port is not given, whatever --ip is.
C15_PortFromPortOption ==
    Configured
        => server_configuration.port = unwrap_or(matches.port, "29000")

\* The zone id --zone names, when it names one: a decimal u16 that is not zero.
ZoneGiven(m) == and_then(and_then(m.zone, parse_u16), ZoneId_new)

C17_StageOrder ==
    main_pc = "run"
        => LET pos(label) == IndexOf(schedule, label) IN
           /\ \A i \in DOMAIN frame : frame[i] = schedule[i]
           /\ \A system \in NetworkSystems :
                 \E i \in 1..(pos("Update") - 1) : system \in schedule[i].systems
           /\ pos("ZoneChange") > pos("Update")
           /\ ZoneChangeSystems \subseteq schedule[pos("ZoneChange")].systems
           /\ pos("DebugRender") > pos("ZoneChange")
           /\ \A i, j \in DOMAIN frame :
                 (frame[i].stage = "DebugRender" /\ j > i)
                    => frame[j].systems = {}


----------------------------------------------------------------------------
\* A step in which load_zone_system sends a ZoneEvent, and one in which it
\* reads LoadZoneEvents.
ZoneEventSent == zone_events' # zone_events
LoadZoneEventsRead == load_zone_events # <<>> /\ load_zone_events' = <<>>

\* C18 as stated: ZoneEvent::Loaded(z) is sent in a run of the system that
\* starts in Loading(z) and ends in Loaded(z), with no mesh of a zone object
\* loading, once; never in a run that starts in None or in Loaded.
C18_LoadedOnlyFromLoading ==
    [][ZoneEventSent
          => /\ load_zone_state.kind = "Loading"
             /\ load_zone_state' = Loaded(load_zone_state.id)
             /\ zone_events' = Append(zone_events, load_zone_state.id)
             /\ \A object \in zone_objects : object.mesh # "Loading"]_vars

\* C18, amended: the run that sends ZoneEvent::Loaded(z) ends in Loaded(z)
\* and sends it once, with no mesh of a zone object loading; it starts in
\* Loading(z) with no LoadZoneEvent or with the last one for z, or it starts
\* in Loaded(z) and reads LoadZoneEvents of which the last is for z again.
\* A run that starts in None sends nothing, and every run that goes from
\* Loading to Loaded sends the event.
C18_LoadedEvent ==
    /\ [][ZoneEventSent
             => \E z \in ZoneIds :
                   /\ zone_events' = Append(zone_events, z)
                   /\ load_zone_state' = Loaded(z)
                   /\ \A object \in zone_objects : object.mesh # "Loading"
                   /\ zone_objects' = zone_objects
                   /\ \/ /\ load_zone_state = Loading(z)
                         /\ load_zone_events # <<>> => Last(load_zone_events) = z
                      \/ /\ load_zone_state = Loaded(z)
                         /\ load_zone_events # <<>>
                         /\ Last(load_zone_events) = z]_vars
    /\ [][load_zone_state = NoZone => ~ZoneEventSent]_vars
    /\ [][(load_zone_state.kind = "Loading" /\ load_zone_state'.kind = "Loaded")
             => /\ load_zone_state'.id = load_zone_state.id
                /\ zone_events' = Append(zone_events, load_zone_state.id)]_vars
    /\ [](Len(zone_events) <= zone_requests)

\* C18 witness: zone 1 was requested, its meshes ended loading (one failed)
\* and the event was sent once.
C18_Witness ==
    /\ load_zone_state = Loaded(1)
    /\ zone_events = <<1>>
    /\ zone_requests = 1
    /\ ZoneEntity(1, "Terrain", "Failed") \in zone_objects
    /\ ZoneEntity(1, "CnstObjectPart", "Loaded") \in zone_objects

\* C19 as stated: a run that reads a LoadZoneEvent for a zone other than the
\* current one leaves no entity of the old zone and no CurrentZone, and what
\* exists afterwards is what load_zone spawned for the new zone; a run that
\* reads a LoadZoneEvent for the current zone despawns and spawns nothing.
C19_AnyEventChangesZone ==
    [][LoadZoneEventsRead
          => \A i \in DOMAIN load_zone_events :
                LET zone_id == load_zone_events[i] IN
                IF ZoneIdOf(load_zone_state) # Some(zone_id)
                THEN /\ zone_objects' \cap zone_objects = {}
                     /\ sky_entities' \cap sky_entities = {}
                     /\ current_zone' = None
                ELSE /\ zone_objects' = zone_objects
                     /\ sky_entities' = sky_entities]_vars

\* C19, amended: of the LoadZoneEvents a run reads, the last one decides. If
\* it names another zone than the current one, every zone object and sky
\* entity is despawned and CurrentZone removed, and the entities afterwards
\* are those load_zone spawned for the new zone (none when the zone is not in
\* the list or cannot be read); if it names the current zone, nothing is
\* despawned or spawned.
C19_LastEventChangesZone ==
    [][LoadZoneEventsRead
          => LET zone_id == Last(load_zone_events) IN
             IF ZoneIdOf(load_zone_state) # Some(zone_id)
             THEN /\ load_zone_state' = Loading(zone_id)
                  /\ zone_objects' \cap zone_objects = {}
                  /\ sky_entities' \cap sky_entities = {}
                  /\ \A entity \in zone_objects' \cup sky_entities' :
                        entity.zone = zone_id /\ entity.mesh \in {"NoMesh", "Loading"}
                  /\ zone_objects' =
                        IF zone_id \in ZoneList \ Unreadable
                        THEN SpawnedObjects(zone_id) ELSE {}
                  /\ current_zone' = None
             ELSE /\ zone_objects' = zone_objects
                  /\ sky_entities' = sky_entities]_vars

\* C19 witness: zone 1 was loaded with its sky, then zone 2, which has no
\* skybox, was requested: only the freshly spawned objects of zone 2 exist.
C19_Witness ==
    /\ zone_events = <<1>>
    /\ load_zone_state = Loading(2)
    /\ zone_objects = SpawnedObjects(2)
    /\ sky_entities = {}
    /\ current_zone = None
    /\ loading_current_zone = Some(2)


----------------------------------------------------------------------------
\* A run of npc_idle_sound_system that rolls for the entity.
Rolled == rolls' # rolls

\* C20 as stated: over any sequence of frames and command changes no value
\* of the loop count is rolled for twice; nothing is rolled while the command
\* is not stop, nor in the run that attaches the NpcIdleSoundState.
C20_OneRollPerLoopCount ==
    /\ [](\A i, j \in DOMAIN rolls :
             i # j => rolls[i].loop_count # rolls[j].loop_count)
    /\ [][Rolled => npc_command = "stop" /\ idle_sound_state # None]_vars

\* C20, amended: between two resets of the state (runs that see another
\* command than stop) the loop counts rolled for increase strictly, so each
\* value is rolled for at most once in such a period; a roll records the
\* loop count; nothing is rolled while the command is not stop, nor in the
\* run that attaches the NpcIdleSoundState.
C20_OneRollPerLoopAndPeriod ==
    /\ [](\A i, j \in DOMAIN rolls :
             (i < j /\ rolls[i].period = rolls[j].period)
                => rolls[i].loop_count < rolls[j].loop_count)
    /\ [][Rolled
             => /\ npc_command = "stop"
                /\ idle_sound_state # None
                /\ idle_sound_state' =
                      Some(NpcIdleSoundState(Some(current_loop_count)))
                /\ Len(rolls') = Len(rolls) + 1]_vars
    /\ [][(idle_sound_state = None /\ idle_sound_state' # None)
             => /\ ~Rolled
                /\ idle_sound_state' = Some(NpcIdleSoundState(None))]_vars
    /\ [][(npc_frames' # npc_frames /\ npc_command # "stop" /\ idle_sound_state # None)
             => /\ ~Rolled
                /\ idle_sound_state' = Some(NpcIdleSoundState(None))]_vars

\* C20 witness: within one period of stop the loops 0 and 1 were rolled for
\* once each, in spite of a further run during loop 1.
C20_Witness ==
    /\ Len(rolls) = 2
    /\ rolls[1].loop_count = 0 /\ rolls[2].loop_count = 1
    /\ rolls[1].period = rolls[2].period
    /\ npc_frames > rolls[2].frame
    /\ current_loop_count = 1
    /\ npc_command = "stop"

\* C22 (as stated): whenever the load state is Loaded(z) and a CurrentZone
\* resource exists, the id of that CurrentZone is z.
C22_CurrentZoneIsLoadedZone ==
    (load_zone_state.kind = "Loaded" /\ current_zone # None)
        => current_zone = Some(load_zone_state.id)

\* C22, for the zones of the zone list: whenever the load state is Loaded(z)
\* with z in the zone list and a CurrentZone resource exists, its id is z; and
\* the value held back in loading_current_zone while a zone of the list is
\* loading is that zone's.
C22_CurrentZoneOfListedZone ==
    /\ (load_zone_state.kind = "Loaded" /\ current_zone # None
            /\ load_zone_state.id \in ZoneList)
          => current_zone = Some(load_zone_state.id)
    /\ (load_zone_state.kind = "Loading" /\ loading_current_zone # None
            /\ load_zone_state.id \in ZoneList)
          => loading_current_zone = Some(load_zone_state.id)

\* C22 witness: after more than one LoadZoneEvent zone 2 is loaded, and the
\* CurrentZone inserted at the transition to Loaded(2) is that of zone 2.
C22_Witness ==
    /\ load_zone_state = Loaded(2)
    /\ current_zone = Some(2)
    /\ zone_requests >= 2
    /\ zone_events = <<2>>

\* A run of load_zone_system sent ZoneEvent::Loaded.
ZoneEventLoadedSent == Len(zone_events') = Len(zone_events) + 1

\* The LoadZoneEvents sent since the last run are read by this step.
LoadZoneEventsTaken == load_zone_events # <<>> /\ load_zone_events' = <<>>

\* C23: the LoadZoneEvents sent are read, and reading them leaves the state in
\* Loading(z) or Loaded(z) for the last one, z; from Loading(z), unless a
\* further LoadZoneEvent arrives, load_zone_system leaves Loading, and the only
\* state it leaves Loading(z) for is Loaded(z); the step that reaches
\* Loaded(z) is the one that sends ZoneEvent::Loaded(z); and while no
\* LoadZoneEvent is pending, Loaded(z) is kept and no further event is sent.
C23_EventuallyLoaded ==
    /\ (load_zone_events # <<>>) ~> (load_zone_events = <<>>)
    /\ [][LoadZoneEventsTaken
             => load_zone_state' \in {Loading(Last(load_zone_events)),
                                      Loaded(Last(load_zone_events))}]_vars
    /\ (load_zone_state.kind = "Loading" /\ load_zone_events = <<>>)
          ~> (load_zone_state.kind = "Loaded" \/ load_zone_events # <<>>)
    /\ [][(load_zone_state.kind = "Loading" /\ load_zone_events = <<>>)
             => load_zone_state' \in {load_zone_state,
                                      Loaded(load_zone_state.id)}]_vars
    /\ [][(/\ load_zone_state'.kind = "Loaded"
           /\ (load_zone_state' # load_zone_state \/ LoadZoneEventsTaken))
             => /\ ZoneEventLoadedSent
                /\ Last(zone_events') = load_zone_state'.id]_vars
    /\ [][(load_zone_state.kind = "Loaded" /\ load_zone_events = <<>>)
             => /\ load_zone_state' = load_zone_state
                /\ zone_events' = zone_events]_vars

\* C23 witness: zone 1 was requested once, one of its meshes failed to load
\* and the other was loaded, and the system is in Loaded(1) with the one
\* ZoneEvent::Loaded(1) sent.
C23_Witness ==
    /\ zone_requests = 1
    /\ load_zone_events = <<>>
    /\ load_zone_state = Loaded(1)
    /\ zone_events = <<1>>
    /\ \E object \in zone_objects : object.mesh = "Failed"
    /\ \E object \in zone_objects : object.mesh = "Loaded"

\* quest_trigger_check_conditions has returned.
Checked == check_result # None

\* The selected_quest_index the i-th condition of the trigger is evaluated
\* with: that of the last SelectQuest before it that names an active quest.
SelectedBefore(i) ==
    LET selects == {j \in 1..(i - 1) :
                       /\ quest_trigger[j].type = "SelectQuest"
                       /\ find_active_quest_index(quest_trigger[j].id) # None}
    IN  IF selects = {} THEN None
        ELSE find_active_quest_index(
                 quest_trigger[CHOOSE j \in selects : \A k \in selects : k <= j].id)

\* The i-th condition of the trigger evaluates to true.
ConditionHolds(i) == MatchCondition(quest_trigger[i], SelectedBefore(i)).value

\* The conditions of the trigger that evaluate to false.
FailedConditions == {i \in DOMAIN quest_trigger : ~ConditionHolds(i)}

FirstFailed == CHOOSE i \in FailedConditions : \A j \in FailedConditions : i <= j

\* C21: the call returns true exactly when every condition of the trigger
\* evaluates to true; the conditions evaluated are those up to the first false
\* one, in list order, and selected_quest_index is as the SelectQuests before
\* the first false condition left it; a server-side-only condition counts as
\* true and an unimplemented one as false; the empty trigger yields true.
C21_TrueIffEveryConditionHolds ==
    Checked =>
        /\ check_result = Some(FailedConditions = {})
        /\ Len(condition_log) =
              (IF FailedConditions = {} THEN Len(quest_trigger) ELSE FirstFailed)
        /\ \A i \in DOMAIN condition_log : condition_log[i] = ConditionHolds(i)
        /\ selected_quest_index =
              SelectedBefore(IF FailedConditions = {} THEN Len(quest_trigger) + 1
                             ELSE FirstFailed)
        /\ \A i \in DOMAIN condition_log :
              /\ quest_trigger[i].type \in ServerSideOnly => condition_log[i]
              /\ quest_trigger[i].type \in Unimplemented => ~condition_log[i]
        /\ quest_trigger = <<>> => check_result = Some(TRUE)

\* C21 witness: the first condition selects an active quest, the second is
\* false and the third, a SelectQuest of another active quest, is not
\* evaluated: the call returned false with the first quest selected.
C21_Witness ==
    /\ Checked
    /\ Len(quest_trigger) = 3
    /\ quest_trigger[1] = QsdCondition("SelectQuest", 10, "Equals", 0)
    /\ quest_trigger[2].type \in Unimplemented
    /\ quest_trigger[3] = QsdCondition("SelectQuest", 20, "Equals", 0)
    /\ check_result = Some(FALSE)
    /\ condition_log = <<TRUE, FALSE>>
    /\ selected_quest_index = Some(0)

\* Every part spawned has the mesh handle of its mesh id.
PartsHaveTheirMesh ==
    \A i \in DOMAIN part_entities :
        part_entities[i].mesh = MeshHandle(part_entities[i].mesh_id)

\* Every part spawned has the material built from its material id.
PartsHaveTheirMaterial ==
    \A i \in DOMAIN part_entities :
        part_entities[i].material = LoadedMaterial(part_entities[i].material_id)

\* The caches have the length of zsc.meshes and of zsc.materials.
CachesKeepLength ==
    block_pc # "idle"
        => Len(mesh_cache) = NumMeshes /\ Len(material_cache) = NumMaterials

\* C24 (as stated): every part of the object is spawned with the mesh handle
\* of zsc.meshes[part.mesh_id] and a material built from
\* zsc.materials[part.material_id], whatever the order and repetition of the
\* ids, and the caches keep the length of zsc.meshes / zsc.materials.
C24_PartsGetTheirMeshAndMaterial ==
    /\ PartsHaveTheirMesh
    /\ PartsHaveTheirMaterial
    /\ CachesKeepLength

====
